---- MODULE Spec2Model ----
(***************************************************************************)
(* Model of pandarallel/utils/inliner.py: the bytecode rewriting engine    *)
(* (multiple_find, multiple_replace, remove_duplicates,                    *)
(* get_instructions_tuples, has_no_return, get_transitions,                *)
(* get_b_transitions, are_functions_equivalent, get_shifted_bytecode,      *)
(* pin_arguments, inline).                                                 *)
(*                                                                         *)
(* A bytes object is a sequence of integers 0..255.  A tuple is a          *)
(* sequence; Python positions are 0-based, so position p of a tuple t is   *)
(* t[p + 1].  A dict whose keys are integers or bytes is a function; the   *)
(* `arguments` dict, whose insertion order the code observes through       *)
(* arguments.values(), is a sequence of <<key, value>> pairs with distinct *)
(* keys.  A function object is a record of the code-object fields the      *)
(* module reads: co_code, co_consts, co_names, co_varnames, co_argcount.   *)
(* sys.version_info is (3, version).  Whether `import ipdb` (line 453)     *)
(* finds the module is a fact of the host environment, chosen when inline  *)
(* is called; ipdb.set_trace() stops in the debugger and, once resumed,    *)
(* changes nothing that inline reads.                                      *)
(***************************************************************************)
EXTENDS Integers, Sequences, FiniteSets, TLC

VARIABLES
    version,        \* sys.version_info.minor of the host (major is 3)
    pre_func,       \* pre_func of inline; func of pin_arguments; l_func
    func,           \* func of inline and get_shifted_bytecode; r_func
    arguments,      \* arguments / pre_func_arguments (ordered dict)
    qty,            \* qty of get_shifted_bytecode
    bytecode,       \* bytecode of multiple_replace
    rep_dict,       \* rep_dict of multiple_replace
    res             \* outcome of the last call

vars == <<version, pre_func, func, arguments, qty, bytecode, rep_dict, res>>

(***************************************************************************)
(* class OpCode (lines 10-23): the opcode bytes.                           *)
(***************************************************************************)
JUMP_ABSOLUTE == 113
JUMP_IF_FALSE_OR_POP == 111
JUMP_IF_TRUE_OR_POP == 112
LOAD_ATTR == 106
LOAD_CONST == 100
LOAD_FAST == 124
LOAD_GLOBAL == 116
LOAD_METHOD == 160
POP_JUMP_IF_FALSE == 114
POP_JUMP_IF_TRUE == 115
RETURN_VALUE == 83
STORE_ATTR == 95
STORE_FAST == 125

\* Two opcodes of the docstring example of get_instructions_tuples
\* (b'\x83\x02' and b'\x01\x00', lines 96-98), used to build input streams.
CALL_FUNCTION == 131
POP_TOP == 1

\* The constant None of a code object's co_consts.
None == "None"

(***************************************************************************)
(* Python built-ins the module uses.                                       *)
(***************************************************************************)
Range(t) == {t[i] : i \in 1..Len(t)}

\* tuple.index(x): the first position of x (the caller checks x is present).
Index(t, x) ==
    (CHOOSE i \in 1..Len(t) : t[i] = x /\ \A j \in 1..(i - 1) : t[j] # x) - 1

\* int.from_bytes(value, "little")
RECURSIVE FromBytesLittle(_)
FromBytesLittle(value) ==
    IF value = <<>> THEN 0
    ELSE value[1] + 256 * FromBytesLittle(Tail(value))

\* int.to_bytes(n, 2, "little"); OverflowError outside 0..65535
ToBytes2Raises(n) == n < 0 \/ n > 65535
ToBytes2Little(n) == <<n % 256, (n \div 256) % 256>>

\* {**a, **b}: the later dict wins on a shared key.
MergeDicts(a, b) ==
    [k \in (DOMAIN a) \cup (DOMAIN b) |-> IF k \in DOMAIN b THEN b[k] ELSE a[k]]

\* chain.from_iterable over a tuple of byte strings
RECURSIVE Flatten(_)
Flatten(tuples) ==
    IF tuples = <<>> THEN <<>> ELSE Head(tuples) \o Flatten(Tail(tuples))

(***************************************************************************)
(* multiple_find (lines 26-32): re.finditer of a literal pattern, the      *)
(* start offsets of its non-overlapping occurrences scanned left to right. *)
(***************************************************************************)
RECURSIVE FindFrom(_, _, _)
FindFrom(code, sub_bytecode, i) ==
    IF i + Len(sub_bytecode) - 1 > Len(code) THEN <<>>
    ELSE IF SubSeq(code, i, i + Len(sub_bytecode) - 1) = sub_bytecode
         THEN <<i - 1>> \o FindFrom(code, sub_bytecode, i + Len(sub_bytecode))
         ELSE FindFrom(code, sub_bytecode, i + 1)

multiple_find(code, sub_bytecode) == FindFrom(code, sub_bytecode, 1)

(***************************************************************************)
(* multiple_replace (lines 35-49): pattern.sub over the raw bytes.  The    *)
(* pattern is the alternation of the escaped keys, longest first, so at    *)
(* each offset the longest key that matches there is taken; the scan then  *)
(* resumes after the match.  Offsets are byte offsets of the whole string: *)
(* nothing ties a match to an instruction start.  With an empty rep_dict   *)
(* the pattern is b"", which matches the empty string at offset 0, and the *)
(* replacement callback raises KeyError on rep_dict[b""].                  *)
(***************************************************************************)
MatchesAt(code, dict, i) ==
    {k \in DOMAIN dict :
        /\ i + Len(k) - 1 <= Len(code)
        /\ SubSeq(code, i, i + Len(k) - 1) = k}

LongestKey(keys) == CHOOSE k \in keys : \A m \in keys : Len(m) <= Len(k)

RECURSIVE SubFrom(_, _, _)
SubFrom(code, dict, i) ==
    IF i > Len(code) THEN <<>>
    ELSE LET m == MatchesAt(code, dict, i) IN
         IF m = {} THEN <<code[i]>> \o SubFrom(code, dict, i + 1)
         ELSE LET k == LongestKey(m) IN
              dict[k] \o SubFrom(code, dict, i + Len(k))

multiple_replace_raises(dict) == DOMAIN dict = {}

multiple_replace(code, dict) == SubFrom(code, dict, 1)

(***************************************************************************)
(* remove_duplicates (lines 52-59): first occurrences, in order.           *)
(***************************************************************************)
RECURSIVE remove_duplicates(_)
remove_duplicates(tuple_) ==
    IF tuple_ = <<>> THEN <<>>
    ELSE LET init == remove_duplicates(SubSeq(tuple_, 1, Len(tuple_) - 1))
             last == tuple_[Len(tuple_)]
         IN  IF last \in Range(init) THEN init ELSE Append(init, last)

\* has_duplicates (lines 139-146)
has_duplicates(tuple_) == Cardinality(Range(tuple_)) # Len(tuple_)

(***************************************************************************)
(* get_instructions_tuples (lines 62-120).  The version test of lines      *)
(* 109-111 raises SystemError.  dis.Bytecode gives the instruction start   *)
(* offsets: in 3.5 an opcode below 90 (HAVE_ARGUMENT) is one byte and any  *)
(* other opcode is followed by two operand bytes; from 3.6 on every        *)
(* instruction is two bytes (docstring, lines 70-98).                      *)
(***************************************************************************)
SupportedVersions == {5, 6, 7}

get_instructions_tuples_raises(v) == v \notin SupportedVersions

InstructionLength(v, operation) ==
    IF v = 5 THEN (IF operation < 90 THEN 1 ELSE 3) ELSE 2

RECURSIVE InstructionsFrom(_, _, _)
InstructionsFrom(v, code, start) ==
    IF start > Len(code) THEN <<>>
    ELSE LET stop == start + InstructionLength(v, code[start]) - 1
             last == IF stop > Len(code) THEN Len(code) ELSE stop
         IN  <<SubSeq(code, start, last)>> \o InstructionsFrom(v, code, last + 1)

get_instructions_tuples(v, f) == InstructionsFrom(v, f.co_code, 1)

(***************************************************************************)
(* Outcome of a call: the exception raised (with the source line of the    *)
(* raise) or the value returned.                                           *)
(***************************************************************************)
NoRoutine ==
    [co_code |-> <<>>, co_consts |-> <<>>, co_names |-> <<>>,
     co_varnames |-> <<>>, co_argcount |-> 0]

Raise(exception, line) ==
    [error |-> exception, at |-> line, routine |-> NoRoutine,
     code |-> <<>>, value |-> FALSE]

ReturnRoutine(f) ==
    [error |-> "none", at |-> 0, routine |-> f, code |-> <<>>, value |-> FALSE]

ReturnBytes(b) ==
    [error |-> "none", at |-> 0, routine |-> NoRoutine, code |-> b,
     value |-> FALSE]

ReturnBool(b) ==
    [error |-> "none", at |-> 0, routine |-> NoRoutine, code |-> <<>>,
     value |-> b]

(***************************************************************************)
(* has_no_return (lines 123-136).  co_consts.index(None) raises ValueError *)
(* when None is not a constant; `and` short-circuits, so                   *)
(* instructions_tuples[-2] is evaluated (IndexError on a one-instruction   *)
(* stream) only when exactly one byte of the stream equals RETURN_VALUE.   *)
(***************************************************************************)
has_no_return(v, f) ==
    IF get_instructions_tuples_raises(v) THEN Raise("SystemError", 111)
    ELSE IF None \notin Range(f.co_consts) THEN Raise("ValueError", 134)
    ELSE IF Index(f.co_consts, None) > 255 THEN Raise("ValueError", 134)
    ELSE
      LET instructions_tuples == get_instructions_tuples(v, f)
          return_offsets == multiple_find(f.co_code, <<RETURN_VALUE>>)
          load_const_none == <<LOAD_CONST, Index(f.co_consts, None)>>
          n == Len(instructions_tuples)
      IN  IF Len(return_offsets) # 1 THEN ReturnBool(FALSE)
          ELSE IF n < 2 THEN Raise("IndexError", 136)
          ELSE LET before_last == instructions_tuples[n - 1]
                   head2 == SubSeq(before_last, 1,
                                   IF Len(before_last) < 2
                                   THEN Len(before_last) ELSE 2)
               IN  ReturnBool(head2 = load_const_none)

(***************************************************************************)
(* get_transitions (lines 184-210) and get_b_transitions (lines 213-219).  *)
(***************************************************************************)
get_transitions_raises(olds, news) ==
    has_duplicates(olds) \/ has_duplicates(news)

get_transitions(olds, news) ==
    [index_old \in {j - 1 : j \in {i \in 1..Len(olds) : olds[i] \in Range(news)}}
        |-> Index(news, olds[index_old + 1])]

\* bytes([key]) raises ValueError for a position above 255
get_b_transitions_raises(transitions) ==
    \E key \in DOMAIN transitions : key > 255 \/ transitions[key] > 255

get_b_transitions(transitions, byte_source, byte_dest) ==
    [b \in {<<byte_source, key>> : key \in DOMAIN transitions}
        |-> <<byte_dest, transitions[b[2]]>>]

\* The seven-way dict of lines 230-238 and 443-451.
PoolTransitions(trans_co_consts, trans_co_names, trans_co_varnames) ==
    MergeDicts(get_b_transitions(trans_co_consts, LOAD_CONST, LOAD_CONST),
    MergeDicts(get_b_transitions(trans_co_names, LOAD_GLOBAL, LOAD_GLOBAL),
    MergeDicts(get_b_transitions(trans_co_names, LOAD_METHOD, LOAD_METHOD),
    MergeDicts(get_b_transitions(trans_co_names, LOAD_ATTR, LOAD_ATTR),
    MergeDicts(get_b_transitions(trans_co_names, STORE_ATTR, STORE_ATTR),
    MergeDicts(get_b_transitions(trans_co_varnames, LOAD_FAST, LOAD_FAST),
               get_b_transitions(trans_co_varnames, STORE_FAST, STORE_FAST)))))))

(***************************************************************************)
(* are_functions_equivalent (lines 222-247).  Lines 244 and 245 compare    *)
(* l_code's names and local slots with l_code's own.                       *)
(***************************************************************************)
are_functions_equivalent(l_func, r_func) ==
    IF has_duplicates(l_func.co_consts) THEN Raise("ValueError", 202)
    ELSE IF has_duplicates(r_func.co_consts) THEN Raise("ValueError", 205)
    ELSE IF has_duplicates(l_func.co_names) THEN Raise("ValueError", 202)
    ELSE IF has_duplicates(r_func.co_names) THEN Raise("ValueError", 205)
    ELSE IF has_duplicates(l_func.co_varnames) THEN Raise("ValueError", 202)
    ELSE IF has_duplicates(r_func.co_varnames) THEN Raise("ValueError", 205)
    ELSE
      LET trans_co_consts == get_transitions(l_func.co_consts, r_func.co_consts)
          trans_co_names == get_transitions(l_func.co_names, r_func.co_names)
          trans_co_varnames ==
              get_transitions(l_func.co_varnames, r_func.co_varnames)
          transitions ==
              PoolTransitions(trans_co_consts, trans_co_names, trans_co_varnames)
      IN  IF \/ get_b_transitions_raises(trans_co_consts)
             \/ get_b_transitions_raises(trans_co_names)
             \/ get_b_transitions_raises(trans_co_varnames)
          THEN Raise("ValueError", 217)
          ELSE IF multiple_replace_raises(transitions) THEN Raise("KeyError", 49)
          ELSE
            LET new_l_co_code == multiple_replace(l_func.co_code, transitions)
                co_code_cond == new_l_co_code = r_func.co_code
                co_consts_cond ==
                    Range(l_func.co_consts) = Range(r_func.co_consts)
                co_names_cond == Range(l_func.co_names) = Range(l_func.co_names)
                co_varnames_cond ==
                    Range(l_func.co_varnames) = Range(l_func.co_varnames)
            IN  ReturnBool(co_code_cond /\ co_consts_cond /\ co_names_cond
                           /\ co_varnames_cond)

(***************************************************************************)
(* get_shifted_bytecode (lines 263-290).  A jump instruction is re-encoded *)
(* as the opcode followed by int.to_bytes(target + qty, 2, "little"), two  *)
(* operand bytes whatever the width of the operand that was read.          *)
(***************************************************************************)
JumpOpCodes ==
    {JUMP_ABSOLUTE, JUMP_IF_FALSE_OR_POP, JUMP_IF_TRUE_OR_POP,
     POP_JUMP_IF_FALSE, POP_JUMP_IF_TRUE}

ShiftedTarget(instruction, n) == FromBytesLittle(Tail(instruction)) + n

ShiftInstruction(instruction, n) ==
    IF Head(instruction) \in JumpOpCodes
    THEN <<Head(instruction)>> \o ToBytes2Little(ShiftedTarget(instruction, n))
    ELSE instruction

get_shifted_bytecode(v, f, n) ==
    IF get_instructions_tuples_raises(v) THEN Raise("SystemError", 111)
    ELSE
      LET instructions_tuples == get_instructions_tuples(v, f)
      IN  IF \E i \in 1..Len(instructions_tuples) :
                /\ Head(instructions_tuples[i]) \in JumpOpCodes
                /\ ToBytes2Raises(ShiftedTarget(instructions_tuples[i], n))
          THEN Raise("OverflowError", 272)
          ELSE ReturnBytes(Flatten(
                   [i \in 1..Len(instructions_tuples)
                       |-> ShiftInstruction(instructions_tuples[i], n)]))

(***************************************************************************)
(* The `arguments` dict: keys, values in insertion order, lookup.          *)
(***************************************************************************)
Keys(dict) == {dict[i][1] : i \in 1..Len(dict)}

Values(dict) == [i \in 1..Len(dict) |-> dict[i][2]]

Lookup(dict, key) == dict[CHOOSE i \in 1..Len(dict) : dict[i][1] = key][2]

\* signature(func).parameters.keys(): the declared parameter names, the
\* first co_argcount local slots.
Parameters(f) == {f.co_varnames[i] : i \in 1..f.co_argcount}

\* types.CodeType called with the fifteen positional arguments of 3.5-3.7
\* (lines 357-373, 466-482).  From 3.8 on the constructor takes
\* posonlyargcount as its second argument, and the call raises TypeError.
CodeTypeRaises(v) == v > 7

\* The test of line 319, negated: the keys are the parameter names.
arguments_correspond_subset(f, dict) == Keys(dict) \subseteq Parameters(f)

arguments_correspond(f, dict) == Parameters(f) = Keys(dict)

(***************************************************************************)
(* pin_arguments (lines 293-375).  No line of it reads the host version.   *)
(***************************************************************************)
pin_arguments(v, f, dict) ==
    IF ~arguments_correspond(f, dict) THEN Raise("TypeError", 320)
    ELSE
      LET func_co_code == f.co_code
          func_co_consts == f.co_consts
          func_co_varnames == f.co_varnames
          new_co_consts == remove_duplicates(func_co_consts \o Values(dict))
          new_co_varnames ==
              SelectSeq(func_co_varnames, LAMBDA item : item \notin Keys(dict))
          trans_co_varnames2_co_consts ==
              [p \in {Index(func_co_varnames, key) : key \in Keys(dict)}
                  |-> Index(new_co_consts,
                            Lookup(dict, func_co_varnames[p + 1]))]
          trans_co_varnames == get_transitions(func_co_varnames, new_co_varnames)
          transitions ==
              MergeDicts(get_b_transitions(trans_co_varnames2_co_consts,
                                           LOAD_FAST, LOAD_CONST),
              MergeDicts(get_b_transitions(trans_co_varnames,
                                           LOAD_FAST, LOAD_FAST),
                         get_b_transitions(trans_co_varnames,
                                           STORE_FAST, STORE_FAST)))
      IN  IF has_duplicates(func_co_varnames) THEN Raise("ValueError", 202)
          ELSE IF \/ get_b_transitions_raises(trans_co_varnames2_co_consts)
                  \/ get_b_transitions_raises(trans_co_varnames)
          THEN Raise("ValueError", 217)
          ELSE IF multiple_replace_raises(transitions) THEN Raise("KeyError", 49)
          ELSE IF CodeTypeRaises(v) THEN Raise("TypeError", 357)
          ELSE ReturnRoutine(
                  [co_code |-> multiple_replace(func_co_code, transitions),
                   co_consts |-> new_co_consts,
                   co_names |-> f.co_names,
                   co_varnames |-> new_co_varnames,
                   co_argcount |-> 0])

(***************************************************************************)
(* inline (lines 378-484).                                                 *)
(***************************************************************************)
\* tuple(get_instructions_tuples(pre_func))[:-2], chained (lines 418-420)
WithoutReturn(instructions_tuples) ==
    Flatten(SubSeq(instructions_tuples, 1, Len(instructions_tuples) - 2))

\* lines 429-482, once pre_func is pinned and func's stream is shifted
Splice(v, ipdb, prefix_length, pinned, f, func_co_code) ==
    LET new_co_consts == remove_duplicates(f.co_consts \o pinned.co_consts)
        new_co_names == remove_duplicates(f.co_names \o pinned.co_names)
        new_co_varnames ==
            remove_duplicates(f.co_varnames \o pinned.co_varnames)
        trans_co_consts == get_transitions(pinned.co_consts, new_co_consts)
        trans_co_names == get_transitions(pinned.co_names, new_co_names)
        trans_co_varnames ==
            get_transitions(pinned.co_varnames, new_co_varnames)
        transitions ==
            PoolTransitions(trans_co_consts, trans_co_names, trans_co_varnames)
    IN  IF \/ has_duplicates(pinned.co_consts)
           \/ has_duplicates(pinned.co_names)
           \/ has_duplicates(pinned.co_varnames)
        THEN Raise("ValueError", 202)
        ELSE IF \/ get_b_transitions_raises(trans_co_consts)
                \/ get_b_transitions_raises(trans_co_names)
                \/ get_b_transitions_raises(trans_co_varnames)
        THEN Raise("ValueError", 217)
        ELSE IF ~ipdb THEN Raise("ImportError", 453)
        ELSE IF multiple_replace_raises(transitions) THEN Raise("KeyError", 49)
        ELSE IF CodeTypeRaises(v) THEN Raise("TypeError", 466)
        ELSE
          LET pinned_pre_func_co_code ==
                  multiple_replace(pinned.co_code, transitions)
              pinned_prefunc_co_code_without_return ==
                  SubSeq(pinned_pre_func_co_code, 1,
                         IF prefix_length < Len(pinned_pre_func_co_code)
                         THEN prefix_length ELSE Len(pinned_pre_func_co_code))
          IN  ReturnRoutine(
                  [co_code |-> pinned_prefunc_co_code_without_return
                               \o func_co_code,
                   co_consts |-> new_co_consts,
                   co_names |-> new_co_names,
                   co_varnames |-> new_co_varnames,
                   co_argcount |-> f.co_argcount])

inline(v, ipdb, pre, f, dict) ==
    LET no_return == has_no_return(v, pre)
    IN  IF no_return.error # "none" THEN no_return
        ELSE IF ~no_return.value THEN Raise("ValueError", 416)
        ELSE
          LET prefunc_co_code_without_return ==
                  WithoutReturn(get_instructions_tuples(v, pre))
              pinned_pre_func == pin_arguments(v, pre, dict)
              shifted ==
                  get_shifted_bytecode(v, f, Len(prefunc_co_code_without_return))
          IN  IF pinned_pre_func.error # "none" THEN pinned_pre_func
              ELSE IF shifted.error # "none" THEN shifted
              ELSE Splice(v, ipdb, Len(prefunc_co_code_without_return),
                          pinned_pre_func.routine, f, shifted.code)

(***************************************************************************)
(* Inputs.  A stream is assembled from <<opcode, operand>> instructions in *)
(* the encoding of the host version (docstring of get_instructions_tuples, *)
(* lines 66-98), so that its instruction boundaries are those the decoder  *)
(* reports.                                                                *)
(***************************************************************************)
MaxBody == 1
MaxLocals == 2
MaxBinding == 2
MaxQty == 2

\* Hosts: 3.5 (an opcode and, from 90 on, two operand bytes), 3.6 (two bytes
\* per instruction, as 3.7) and 3.8 (refused by the decoder).
Versions == {5, 6, 8}

EncodeInstruction(v, ins) ==
    IF v = 5
    THEN (IF ins[1] < 90 THEN <<ins[1]>>
          ELSE <<ins[1], ins[2] % 256, ins[2] \div 256>>)
    ELSE <<ins[1], ins[2]>>

Assemble(v, instructions) ==
    Flatten([i \in 1..Len(instructions) |-> EncodeInstruction(v, instructions[i])])

SeqsUpTo(S, n) == UNION {[1..k -> S] : k \in 0..n}

LocalNames == <<"a", "b", "c", "d">>

\* Instructions whose operand is a position of one of the three pools.
PoolInstructions(consts, names, varnames) ==
    {<<LOAD_CONST, i>> : i \in 0..(Len(consts) - 1)}
    \cup {<<LOAD_GLOBAL, i>> : i \in 0..(Len(names) - 1)}
    \cup {<<op, i>> : op \in {LOAD_FAST, STORE_FAST}, i \in 0..(Len(varnames) - 1)}

\* The last instructions of a routine: a return of a constant, or a return
\* of what the body left on the stack.
Endings(consts) ==
    {<< <<LOAD_CONST, i>>, <<RETURN_VALUE, 0>> >> : i \in 0..(Len(consts) - 1)}
    \cup {<< <<RETURN_VALUE, 0>> >>}

\* The bodies of at most n instructions that an ending completes to a
\* routine of at least two instructions.
Bodies(alphabet, ending, n) ==
    {body \in SeqsUpTo(alphabet, n) : Len(body) + Len(ending) >= 2}

Routine(v, body, consts, names, varnames, argcount) ==
    [co_code |-> Assemble(v, body), co_consts |-> consts, co_names |-> names,
     co_varnames |-> varnames, co_argcount |-> argcount]

\* A routine with a docstring and no use of None has no None constant.
PreConstPools == {<<"k">>, <<None>>, <<"k", None>>}

\* Instructions that reference no pool; the operand of the call is the
\* byte value of RETURN_VALUE.
PreExtras ==
    {<<CALL_FUNCTION, RETURN_VALUE>>, <<POP_TOP, 0>>, <<RETURN_VALUE, 0>>}

\* The routines over given pools: a body over the alphabet, then an ending.
RoutinesOver(v, alphabet, consts, names, varnames, argcounts, n) ==
    UNION {
      {Routine(v, body \o ending, consts, names, varnames, argcount) :
          body \in Bodies(alphabet, ending, n), argcount \in argcounts} :
      ending \in Endings(consts)}

PreRoutines(v) ==
    UNION {
      RoutinesOver(v,
                   PoolInstructions(consts, <<"print">>, SubSeq(LocalNames, 1, n))
                   \cup PreExtras,
                   consts, <<"print">>, SubSeq(LocalNames, 1, n),
                   IF n = 0 THEN {0} ELSE {n - 1, n}, MaxBody) :
      consts \in PreConstPools, n \in 0..MaxLocals}

MainBodies ==
    {<< <<LOAD_FAST, 0>> >>,
     << <<LOAD_GLOBAL, 0>>, <<POP_JUMP_IF_TRUE, 0>> >>}

MainRoutines(v) ==
    {Routine(v, body \o << <<LOAD_CONST, 1>>, <<RETURN_VALUE, 0>> >>,
             <<"x", None>>, <<"len">>, <<"b", "y">>, 1) : body \in MainBodies}

\* Bindings: distinct keys in any order, among them a name ("z") that no
\* routine declares.  "x" is in no constant pool of a pre-routine and "k"
\* is in some: a bound value is new or already present, and two names are
\* bound to one value or to two.
BindingKeys == {"a", "b", "z"}

ValuePatterns ==
    {[i \in 1..4 |-> "k"],
     [i \in 1..4 |-> IF i % 2 = 1 THEN "x" ELSE "k"]}

Bindings ==
    {[i \in 1..Len(keys) |-> <<keys[i], values[i]>>] :
        keys \in {d \in SeqsUpTo(BindingKeys, MaxBinding) :
                     \A i, j \in 1..Len(d) : i # j => d[i] # d[j]},
        values \in ValuePatterns}

NoCall == [op |-> "none"] @@ Raise("none", 0)

Called(name, outcome) == [op |-> name] @@ outcome

\* Before any call: no argument drawn yet, no outcome.
NoArguments ==
    /\ arguments = <<>>
    /\ qty = 0
    /\ rep_dict = <<>>
    /\ res = NoCall

(***************************************************************************)
(* The entry points.  The state holds the routine (or the stream) a call   *)
(* works on; the call draws its other arguments, which the state keeps     *)
(* next to the outcome.                                                    *)
(***************************************************************************)
PinArguments ==
    /\ res.op = "none"
    /\ \E dict \in Bindings :
          /\ arguments' = dict
          /\ res' = Called("pin_arguments",
                           pin_arguments(version, pre_func, dict))
    /\ UNCHANGED <<version, pre_func, func, qty, bytecode, rep_dict>>

Inline ==
    /\ res.op = "none"
    /\ \E f \in MainRoutines(version), dict \in Bindings, ipdb \in BOOLEAN :
          /\ func' = f
          /\ arguments' = dict
          /\ res' = Called("inline", inline(version, ipdb, pre_func, f, dict))
    /\ UNCHANGED <<version, pre_func, qty, bytecode, rep_dict>>

\* get_shifted_bytecode on routines with jumps, forward and backward shifts.
JumpTargets == {0, 6}

ShiftAlphabet ==
    {<<op, t>> : op \in {JUMP_ABSOLUTE, POP_JUMP_IF_FALSE}, t \in JumpTargets}
    \cup {<<LOAD_FAST, 0>>, <<POP_TOP, 0>>}

ShiftRoutines(v) ==
    {Routine(v, body \o << <<LOAD_CONST, 0>>, <<RETURN_VALUE, 0>> >>,
             <<None>>, <<>>, <<"a">>, 1) :
        body \in SeqsUpTo(ShiftAlphabet, MaxBody + 1)}

GetShiftedBytecode ==
    /\ res.op = "none"
    /\ \E n \in (0 - MaxQty)..MaxQty :
          /\ qty' = n
          /\ res' = Called("get_shifted_bytecode",
                           get_shifted_bytecode(version, func, n))
    /\ UNCHANGED <<version, pre_func, func, arguments, bytecode, rep_dict>>

\* are_functions_equivalent on pairs of routines whose pools are
\* reorderings, extensions and restrictions of one another.
EquivConstPools == {<<>>, <<None>>, <<None, "k">>, <<"k", None>>}
EquivNamePools == {<<>>, <<"print">>, <<"print", "len">>, <<"len", "print">>}
EquivVarPools == {<<>>, <<"a">>}

EquivRoutines(v) ==
    UNION {
      RoutinesOver(v,
                   PoolInstructions(consts, names, varnames)
                   \cup {<<POP_TOP, 0>>},
                   consts, names, varnames, {Len(varnames)}, MaxBody) :
      consts \in EquivConstPools, names \in EquivNamePools,
      varnames \in EquivVarPools}

AreFunctionsEquivalent ==
    /\ res.op = "none"
    /\ \E r_func \in EquivRoutines(version) :
          /\ func' = r_func
          /\ res' = Called("are_functions_equivalent",
                           are_functions_equivalent(pre_func, r_func))
    /\ UNCHANGED <<version, pre_func, arguments, qty, bytecode, rep_dict>>

\* multiple_replace on assembled streams with the dicts get_b_transitions
\* builds for the local-slot loads.
ReplaceAlphabet ==
    {<<LOAD_FAST, 0>>, <<LOAD_FAST, 1>>, <<STORE_FAST, 0>>, <<LOAD_CONST, 0>>,
     <<CALL_FUNCTION, LOAD_FAST>>, <<POP_TOP, 0>>}

ReplaceTransitions ==
    UNION {[olds -> 0..MaxLocals] : olds \in SUBSET (0..(MaxLocals - 1))}

MultipleReplace ==
    /\ res.op = "none"
    /\ \E transitions \in ReplaceTransitions,
          byte_dest \in {LOAD_CONST, LOAD_FAST} :
          LET dict == get_b_transitions(transitions, LOAD_FAST, byte_dest)
          IN  /\ rep_dict' = dict
              /\ res' = Called("multiple_replace",
                               IF multiple_replace_raises(dict)
                               THEN Raise("KeyError", 49)
                               ELSE ReturnBytes(multiple_replace(bytecode, dict)))
    /\ UNCHANGED <<version, pre_func, func, arguments, qty, bytecode>>

\* pin_arguments and inline on a pre-routine.
Init ==
    /\ version \in Versions
    /\ pre_func \in PreRoutines(version)
    /\ func = NoRoutine
    /\ bytecode = <<>>
    /\ NoArguments

Next ==
    \/ PinArguments
    \/ Inline

Spec == Init /\ [][Next]_vars

InitShift ==
    /\ version \in Versions \cup SupportedVersions
    /\ func \in ShiftRoutines(version)
    /\ pre_func = NoRoutine
    /\ bytecode = <<>>
    /\ NoArguments

NextShift == GetShiftedBytecode

SpecShift == InitShift /\ [][NextShift]_vars

\* The comparison never decodes a stream: one host of the two-byte
\* encoding and one host the decoder refuses.
InitEquiv ==
    /\ version \in {6, 8}
    /\ pre_func \in EquivRoutines(version)
    /\ func = NoRoutine
    /\ bytecode = <<>>
    /\ NoArguments

NextEquiv == AreFunctionsEquivalent

SpecEquiv == InitEquiv /\ [][NextEquiv]_vars

\* The hosts of the two-byte encoding.
InitReplace ==
    /\ version \in {6, 7}
    /\ bytecode \in {Assemble(version, instructions) :
                        instructions \in SeqsUpTo(ReplaceAlphabet, MaxBody + 2)}
    /\ pre_func = NoRoutine
    /\ func = NoRoutine
    /\ NoArguments

NextReplace == MultipleReplace

SpecReplace == InitReplace /\ [][NextReplace]_vars


(***************************************************************************)
(* Vocabulary of the properties: instructions as the decoder delimits      *)
(* them, and what a pool-referencing instruction denotes.                  *)
(***************************************************************************)
Instructions(v, code) == InstructionsFrom(v, code, 1)

Operand(instruction) == FromBytesLittle(Tail(instruction))

\* The instruction with another operand, in the same width.
WithOperand(instruction, n) ==
    IF Len(instruction) = 3 THEN <<Head(instruction), n % 256, n \div 256>>
    ELSE IF Len(instruction) = 2 THEN <<Head(instruction), n>>
    ELSE instruction

NameOpCodes == {LOAD_GLOBAL, LOAD_METHOD, LOAD_ATTR, STORE_ATTR}
LocalOpCodes == {LOAD_FAST, STORE_FAST}

\* The pool an instruction refers to (<<>> for the other instructions).
PoolOf(f, instruction) ==
    IF Len(instruction) < 2 THEN <<>>
    ELSE IF Head(instruction) = LOAD_CONST THEN f.co_consts
    ELSE IF Head(instruction) \in NameOpCodes THEN f.co_names
    ELSE IF Head(instruction) \in LocalOpCodes THEN f.co_varnames
    ELSE <<>>

ReferencesPool(instruction) ==
    /\ Len(instruction) >= 2
    /\ Head(instruction) \in {LOAD_CONST} \cup NameOpCodes \cup LocalOpCodes

DuplicateFree(f) ==
    /\ ~has_duplicates(f.co_consts)
    /\ ~has_duplicates(f.co_names)
    /\ ~has_duplicates(f.co_varnames)

\* No duplicates within a pool; every operand referencing a pool is
\* smaller than the length of that pool.
ValidReferences(v, f) ==
    /\ DuplicateFree(f)
    /\ \A i \in 1..Len(Instructions(v, f.co_code)) :
          LET instruction == Instructions(v, f.co_code)[i]
          IN  ReferencesPool(instruction)
                 => Operand(instruction) < Len(PoolOf(f, instruction))

Supported == version \in SupportedVersions

KeysMismatch == Parameters(pre_func) # Keys(arguments)

CoverageError == res.error = "TypeError" /\ res.at = 320

\* has_no_return accepts the pre-routine of the state
PreAccepted ==
    /\ has_no_return(version, pre_func).error = "none"
    /\ has_no_return(version, pre_func).value

(***************************************************************************)
(* C8 (as stated): pin_arguments raises the mapping-coverage TypeError     *)
(* whenever the keys of the binding are not exactly the parameter names,   *)
(* returning no routine, and does not raise it when they are; inline gives *)
(* the same outcome for pre_func_arguments against the pre-routine.        *)
(***************************************************************************)
C8_BindingCoverageOriginal ==
    res.op \in {"pin_arguments", "inline"} =>
        /\ KeysMismatch => CoverageError /\ res.routine = NoRoutine
        /\ ~KeysMismatch => ~CoverageError

(***************************************************************************)
(* C8 (amended): pin_arguments raises the mapping-coverage TypeError       *)
(* exactly when the keys of the binding differ from the parameter names,   *)
(* and then returns no routine.  inline runs has_no_return on the          *)
(* pre-routine first: when that raises, inline ends with that error; when  *)
(* it returns false, inline raises the ValueError of line 416; in both     *)
(* cases whatever the binding, with no routine and never the TypeError.    *)
(* When has_no_return returns true, inline gives the outcome of            *)
(* pin_arguments for pre_func_arguments against the pre-routine.           *)
(***************************************************************************)
C8_BindingCoverage ==
    /\ res.op = "pin_arguments" =>
          /\ KeysMismatch <=> CoverageError
          /\ KeysMismatch => res.routine = NoRoutine
    /\ res.op = "inline" =>
          LET no_return == has_no_return(version, pre_func)
          IN  IF no_return.error # "none"
              THEN /\ res.error = no_return.error
                   /\ res.at = no_return.at
                   /\ res.routine = NoRoutine
              ELSE IF ~no_return.value
              THEN /\ res.error = "ValueError"
                   /\ res.at = 416
                   /\ res.routine = NoRoutine
              ELSE /\ KeysMismatch <=> CoverageError
                   /\ KeysMismatch => res.routine = NoRoutine

\* inline on an accepted pre-routine with a binding that has a foreign key
\* and misses a parameter: the TypeError of line 320.
C8_Witness ==
    /\ res.op = "inline"
    /\ PreAccepted
    /\ Keys(arguments) \ Parameters(pre_func) # {}
    /\ Parameters(pre_func) \ Keys(arguments) # {}
    /\ CoverageError

(***************************************************************************)
(* C1: for a routine with duplicate-free pools and a binding whose keys    *)
(* are exactly its parameter names, pin_arguments returns without error a  *)
(* routine with zero parameters, whose local-slot table is the original    *)
(* minus the pinned names, whose constant pool is the original followed by *)
(* the bound values not already present (first-seen order), and in whose   *)
(* stream every load of a pinned parameter is a constant load whose index  *)
(* denotes the bound value.  (Stated on the supported hosts.)              *)
(***************************************************************************)
C1_ExpectedConsts ==
    pre_func.co_consts
    \o remove_duplicates(SelectSeq(Values(arguments),
                                   LAMBDA x : x \notin Range(pre_func.co_consts)))

C1_PinnedLoad(instruction) ==
    /\ Len(instruction) >= 2
    /\ Head(instruction) = LOAD_FAST
    /\ Operand(instruction) < Len(pre_func.co_varnames)
    /\ pre_func.co_varnames[Operand(instruction) + 1] \in Keys(arguments)

C1_SpecializerTotality ==
    (/\ res.op = "pin_arguments"
     /\ Supported
     /\ DuplicateFree(pre_func)
     /\ ~KeysMismatch)
    => /\ res.error = "none"
       /\ res.routine.co_argcount = 0
       /\ res.routine.co_varnames =
             SelectSeq(pre_func.co_varnames,
                       LAMBDA name : name \notin Keys(arguments))
       /\ res.routine.co_consts = C1_ExpectedConsts
       /\ LET ins == Instructions(version, pre_func.co_code)
              outs == Instructions(version, res.routine.co_code)
          IN  /\ Len(outs) = Len(ins)
              /\ \A i \in 1..Len(ins) :
                    C1_PinnedLoad(ins[i]) =>
                        /\ Len(outs[i]) = Len(ins[i])
                        /\ Head(outs[i]) = LOAD_CONST
                        /\ Operand(outs[i]) < Len(res.routine.co_consts)
                        /\ res.routine.co_consts[Operand(outs[i]) + 1] =
                              Lookup(arguments,
                                     pre_func.co_varnames[Operand(ins[i]) + 1])

(***************************************************************************)
(* C4: if the input routines have duplicate-free pools and every           *)
(* pool-referencing operand is smaller than the length of its pool, the    *)
(* routine returned by pin_arguments and the routine returned by inline    *)
(* have the same property, also when the body stores to a pinned           *)
(* parameter.                                                              *)
(***************************************************************************)
C4_PoolReferenceValidity ==
    /\ (/\ res.op = "pin_arguments"
        /\ res.error = "none"
        /\ ValidReferences(version, pre_func))
       => ValidReferences(version, res.routine)
    /\ (/\ res.op = "inline"
        /\ res.error = "none"
        /\ ValidReferences(version, pre_func)
        /\ ValidReferences(version, func))
       => ValidReferences(version, res.routine)

(***************************************************************************)
(* C6: inline raises the structural-precondition ValueError if and only if *)
(* the pre-routine has more than one return instruction or its single      *)
(* return does not return None, and raises it before specialization (a     *)
(* violating pre-routine with a non-matching binding yields the            *)
(* ValueError, not the TypeError); a pre-routine with exactly one return   *)
(* instruction immediately preceded by the load of None is accepted,       *)
(* whatever operand bytes occur elsewhere.  (Stated on the supported       *)
(* hosts.)                                                                 *)
(***************************************************************************)
C6_ReturnInstructions ==
    {i \in 1..Len(Instructions(version, pre_func.co_code)) :
        Head(Instructions(version, pre_func.co_code)[i]) = RETURN_VALUE}

C6_ReturnsNone(i) ==
    /\ i > 1
    /\ LET before == Instructions(version, pre_func.co_code)[i - 1]
       IN  /\ Len(before) >= 2
           /\ Head(before) = LOAD_CONST
           /\ Operand(before) < Len(pre_func.co_consts)
           /\ pre_func.co_consts[Operand(before) + 1] = None

C6_ViolatesPrecondition ==
    \/ Cardinality(C6_ReturnInstructions) > 1
    \/ \E i \in C6_ReturnInstructions : ~C6_ReturnsNone(i)

C6_StructuralPrecondition ==
    (res.op = "inline" /\ Supported)
    => /\ (res.error = "ValueError" /\ res.at \in {134, 416})
             <=> C6_ViolatesPrecondition
       /\ C6_ViolatesPrecondition => res.error # "TypeError"

(***************************************************************************)
(* C7: when the host version is not a supported one, every entry point     *)
(* raises SystemError before any rewriting and returns no routine or       *)
(* result.                                                                 *)
(***************************************************************************)
C7_UnsupportedEncodingRefusal ==
    (res.op # "none" /\ ~Supported)
    => /\ res.error = "SystemError"
       /\ res.routine = NoRoutine

(***************************************************************************)
(* C2: for a pre-routine that passes the no-return check, a main routine   *)
(* and a complete binding, inline returns a routine whose stream is the    *)
(* specialized pre stream without its last two instructions, its pool      *)
(* references renumbered into the merged pools, followed by main's stream  *)
(* with its jump targets shifted by the byte length of that prefix; each   *)
(* result pool is main's pool followed by the specialized pre's symbols    *)
(* not already in it; the parameter count is main's.  (Stated on the       *)
(* supported hosts, for the calls in which pin_arguments returns the       *)
(* specialized pre-routine and `import ipdb` succeeds.)                    *)
(***************************************************************************)
C2_Pinned == pin_arguments(version, pre_func, arguments).routine

C2_Merged(main_pool, pre_pool) ==
    main_pool
    \o SelectSeq(remove_duplicates(pre_pool), LAMBDA x : x \notin Range(main_pool))

C2_Result ==
    [co_consts |-> C2_Merged(func.co_consts, C2_Pinned.co_consts),
     co_names |-> C2_Merged(func.co_names, C2_Pinned.co_names),
     co_varnames |-> C2_Merged(func.co_varnames, C2_Pinned.co_varnames)]

\* An instruction of the specialized pre-routine, referring to the same
\* symbol in the merged pool.
C2_Renumbered(instruction) ==
    IF /\ ReferencesPool(instruction)
       /\ Operand(instruction) < Len(PoolOf(C2_Pinned, instruction))
    THEN WithOperand(instruction,
                     Index(PoolOf(C2_Result, instruction),
                           PoolOf(C2_Pinned, instruction)[Operand(instruction) + 1]))
    ELSE instruction

C2_Prefix ==
    LET ins == Instructions(version, C2_Pinned.co_code)
    IN  Flatten([i \in 1..(Len(ins) - 2) |-> C2_Renumbered(ins[i])])

C2_ShiftedMain ==
    LET ins == Instructions(version, func.co_code)
    IN  Flatten([i \in 1..Len(ins) |->
                    IF Head(ins[i]) \in JumpOpCodes
                    THEN WithOperand(ins[i], Operand(ins[i]) + Len(C2_Prefix))
                    ELSE ins[i]])

C2_InlinerComposition ==
    (/\ res.op = "inline"
     /\ Supported
     /\ PreAccepted
     /\ ~KeysMismatch
     /\ pin_arguments(version, pre_func, arguments).error = "none"
     /\ res.error # "ImportError")
    => /\ res.error = "none"
       /\ res.routine.co_code = C2_Prefix \o C2_ShiftedMain
       /\ res.routine.co_consts = C2_Result.co_consts
       /\ res.routine.co_names = C2_Result.co_names
       /\ res.routine.co_varnames = C2_Result.co_varnames
       /\ res.routine.co_argcount = func.co_argcount

(***************************************************************************)
(* C5: for a supported host, a non-negative qty and targets that stay      *)
(* representable, get_shifted_bytecode returns a stream with the same      *)
(* number of instructions at the same start offsets, in which each jump    *)
(* instruction has its operand plus qty and every other instruction is     *)
(* byte-identical; shifting the result by -qty gives back the original     *)
(* stream.                                                                 *)
(***************************************************************************)
C5_Lengths(instructions) == [i \in 1..Len(instructions) |-> Len(instructions[i])]

C5_JumpShiftCorrectness ==
    (res.op = "get_shifted_bytecode" /\ Supported /\ qty >= 0)
    => /\ res.error = "none"
       /\ LET ins == Instructions(version, func.co_code)
              outs == Instructions(version, res.code)
          IN  /\ C5_Lengths(outs) = C5_Lengths(ins)
              /\ \A i \in 1..Len(ins) :
                    IF Head(ins[i]) \in JumpOpCodes
                    THEN /\ Head(outs[i]) = Head(ins[i])
                         /\ Operand(outs[i]) = Operand(ins[i]) + qty
                    ELSE outs[i] = ins[i]
       /\ get_shifted_bytecode(version, [func EXCEPT !.co_code = res.code],
                               0 - qty).code = func.co_code

(***************************************************************************)
(* C3: are_functions_equivalent(L, R) is true if and only if L's stream    *)
(* rewritten through the L-to-R transition maps equals R's stream and the  *)
(* constant pools, the name pools and the local-slot tables of L and R are *)
(* equal as sets.                                                          *)
(***************************************************************************)
C3_Rewritten ==
    multiple_replace(pre_func.co_code,
        PoolTransitions(get_transitions(pre_func.co_consts, func.co_consts),
                        get_transitions(pre_func.co_names, func.co_names),
                        get_transitions(pre_func.co_varnames, func.co_varnames)))

C3_EquivalenceExactness ==
    (res.op = "are_functions_equivalent" /\ res.error = "none")
    => (res.value <=>
          /\ C3_Rewritten = func.co_code
          /\ Range(pre_func.co_consts) = Range(func.co_consts)
          /\ Range(pre_func.co_names) = Range(func.co_names)
          /\ Range(pre_func.co_varnames) = Range(func.co_varnames))

(***************************************************************************)
(* C9: for every routine R with duplicate-free pools, also one whose three *)
(* pools are all empty, are_functions_equivalent(R, R) raises no error and *)
(* returns true, the R-to-R transition maps being identities.              *)
(***************************************************************************)
C9_IsIdentity(transitions, pool) ==
    /\ DOMAIN transitions = {i - 1 : i \in 1..Len(pool)}
    /\ \A i \in DOMAIN transitions : transitions[i] = i

C9_EquivalenceReflexivity ==
    (/\ res.op = "are_functions_equivalent"
     /\ pre_func = func
     /\ DuplicateFree(func))
    => /\ res.error = "none"
       /\ res.value
       /\ C9_IsIdentity(get_transitions(func.co_consts, func.co_consts),
                        func.co_consts)
       /\ C9_IsIdentity(get_transitions(func.co_names, func.co_names),
                        func.co_names)
       /\ C9_IsIdentity(get_transitions(func.co_varnames, func.co_varnames),
                        func.co_varnames)

(***************************************************************************)
(* C10: multiple_replace applied to a well-formed stream with a map whose  *)
(* keys are (opcode, one-byte operand) pairs gives an output of the same   *)
(* length in which every instruction whose own pair is a key is the mapped *)
(* pair, once, and every other instruction is byte-identical; no match     *)
(* starts on the operand byte of one instruction and ends on the opcode    *)
(* byte of the next.                                                       *)
(***************************************************************************)
C10_Pair(instruction) ==
    SubSeq(instruction, 1, IF Len(instruction) < 2 THEN Len(instruction) ELSE 2)

\* The bytes of the instruction that starts at the given 1-based offset
C10_OutputAt(start, length) == SubSeq(res.code, start, start + length - 1)

RECURSIVE C10_Starts(_, _)
C10_Starts(instructions, i) ==
    IF i = 1 THEN 1
    ELSE C10_Starts(instructions, i - 1) + Len(instructions[i - 1])

C10_SubstitutionRespectsBoundaries ==
    (res.op = "multiple_replace" /\ rep_dict # <<>>)
    => /\ res.error = "none"
       /\ Len(res.code) = Len(bytecode)
       /\ LET ins == Instructions(version, bytecode)
          IN  \A i \in 1..Len(ins) :
                 LET out == C10_OutputAt(C10_Starts(ins, i), Len(ins[i]))
                 IN  IF C10_Pair(ins[i]) \in DOMAIN rep_dict
                     THEN out = rep_dict[C10_Pair(ins[i])]
                                \o SubSeq(ins[i], 3, Len(ins[i]))
                     ELSE out = ins[i]

====
